---- MODULE Spec2Model ----
(***************************************************************************)
(* A model of the subway crowding dashboard (data.py, app.py).             *)
(*                                                                         *)
(* Text is modelled as a sequence of one-character strings, so that the    *)
(* conversions of the loader (header -> "HH:MM" label -> minutes, cell     *)
(* text -> number) are computed the way the code computes them.  The two   *)
(* Korean unit markers of a time header are written SI (hour marker) and   *)
(* BUN (minute marker).                                                    *)
(***************************************************************************)
EXTENDS Integers, Sequences, FiniteSets, TLC

VARIABLES
    pc,            \* position of the run
    csv,           \* the source file handed to load_data
    df,            \* the canonical (long) dataset, a sequence of records
    outcome,       \* how load_data ended
    messages,      \* st.error / st.warning / st.info messages shown so far
    sel,           \* the sidebar selection: line, direction, time_range, top_n
    df_filtered,   \* the filtered subset
    ranking,       \* the result of calculate_ranking
    station_peaks, \* the result of get_station_peaks
    hh, mm,        \* an hour and a minute of the wall clock
    torder         \* the result of time_to_minutes

vars == <<pc, csv, df, outcome, messages, sel, df_filtered, ranking, station_peaks,
          hh, mm, torder>>

----------------------------------------------------------------------------
(* Text helpers *)

SI == "si"
BUN == "bun"
COLON == ":"
SPACE == " "
COMMA == ","
MINUS == "-"

Digits == <<"0", "1", "2", "3", "4", "5", "6", "7", "8", "9">>

IsDigit(c) == \E i \in 1..10 : Digits[i] = c

DigitVal(c) == (CHOOSE i \in 1..10 : Digits[i] = c) - 1

\* An optional value: Python's None, or NaN in a column.
None == [ok |-> FALSE, val |-> 0]

Some(v) == [ok |-> TRUE, val |-> v]

\* str.replace(old, new) for a one-character old and a new of zero or one
\* characters (new is given as a sequence).
RECURSIVE Replace(_, _, _)
Replace(s, old, new) ==
    IF s = <<>> THEN <<>>
    ELSE (IF Head(s) = old THEN new ELSE <<Head(s)>>) \o Replace(Tail(s), old, new)

\* str.strip(): surrounding whitespace removed.
RECURSIVE LStrip(_)
LStrip(s) ==
    IF s # <<>> /\ Head(s) = SPACE THEN LStrip(Tail(s)) ELSE s

RECURSIVE RStrip(_)
RStrip(s) ==
    IF s # <<>> /\ s[Len(s)] = SPACE THEN RStrip(SubSeq(s, 1, Len(s) - 1)) ELSE s

Strip(s) == RStrip(LStrip(s))

\* str.split(sep): the list of parts; a text without sep is one part.
RECURSIVE SplitFrom(_, _, _)
SplitFrom(s, sep, cur) ==
    IF s = <<>> THEN <<cur>>
    ELSE IF Head(s) = sep THEN <<cur>> \o SplitFrom(Tail(s), sep, <<>>)
    ELSE SplitFrom(Tail(s), sep, Append(cur, Head(s)))

Split(s, sep) == SplitFrom(s, sep, <<>>)

\* str.zfill(2): zeros on the left up to width 2 (a text with no sign).
Zfill2(s) ==
    IF Len(s) >= 2 THEN s
    ELSE IF Len(s) = 1 THEN <<"0">> \o s
    ELSE <<"0", "0">>

RECURSIVE DigitsValue(_, _)
DigitsValue(s, acc) ==
    IF s = <<>> THEN acc ELSE DigitsValue(Tail(s), acc * 10 + DigitVal(Head(s)))

AllDigits(s) == s # <<>> /\ \A i \in 1..Len(s) : IsDigit(s[i])

\* int(text): surrounding whitespace is ignored, an optional minus sign, then
\* digits only; anything else raises ValueError (None here).
ParseInt(s) ==
    LET t == Strip(s)
    IN  IF AllDigits(t) THEN Some(DigitsValue(t, 0))
        ELSE IF t # <<>> /\ Head(t) = MINUS /\ AllDigits(Tail(t))
             THEN Some(0 - DigitsValue(Tail(t), 0))
        ELSE None

----------------------------------------------------------------------------
(* load_data.time_to_minutes *)

MIDNIGHT_HOUR == 24

\* A faulty variant of time_to_minutes: no midnight shift.
time_to_minutes_no_shift(t) ==
    IF ~t.ok THEN None
    ELSE LET parts == Split(t.val, COLON)
         IN  IF Len(parts) # 2 THEN None
             ELSE LET h == ParseInt(parts[1])
                      m == ParseInt(parts[2])
                  IN  IF ~h.ok \/ ~m.ok THEN None
                      ELSE Some(h.val * 60 + m.val)

\* t is an optional label.  Unpacking h, m needs exactly two parts and int()
\* needs digits: a ValueError gives None.
time_to_minutes(t) ==
    IF ~t.ok THEN None
    ELSE LET parts == Split(t.val, COLON)
         IN  IF Len(parts) # 2 THEN None
             ELSE LET h == ParseInt(parts[1])
                      m == ParseInt(parts[2])
                  IN  IF ~h.ok \/ ~m.ok THEN None
                      ELSE Some((IF h.val = 0 THEN MIDNIGHT_HOUR ELSE h.val) * 60 + m.val)

----------------------------------------------------------------------------
(* load_data: one long row per (identifier row, time column) *)

\* The HH:MM label of a time column header, or None when the header does not
\* split into exactly an hour part and a minute part (time_mapping has no
\* entry, so .map gives NaN).
TimeMapping(col) ==
    LET col_clean == Strip(Replace(Replace(col, SI, <<COLON>>), BUN, <<>>))
        parts == Split(col_clean, COLON)
    IN  IF Len(parts) = 2
        THEN Some(Zfill2(parts[1]) \o <<COLON>> \o Zfill2(parts[2]))
        ELSE None

\* A faulty variant of ToNumeric: text that is no number becomes zero.
ToNumericZeroFill(cell) ==
    LET n == ParseInt(Replace(Strip(cell), COMMA, <<>>))
    IN  IF n.ok THEN n ELSE Some(0)

\* pd.to_numeric(text.strip().replace(',', ''), errors='coerce'), for whole
\* numbers: text that is no number becomes NaN (None).
ToNumeric(cell) == ParseInt(Replace(Strip(cell), COMMA, <<>>))

\* The row df.melt makes of an identifier row and one time column, with the
\* three derived columns (optional values until dropna).
MeltRow(meta, header, cell) ==
    LET t == TimeMapping(header)
    IN  [operator |-> meta[1], line |-> meta[2], station_code |-> meta[3],
         station_name |-> meta[4], direction |-> meta[5],
         time_original |-> header, crowding |-> ToNumeric(cell),
         time |-> t, time_order |-> time_to_minutes(t)]

\* A faulty variant of Kept: a missing crowding does not drop the row.
KeptAnyCrowding(row) == row.time.ok /\ row.time_order.ok

\* dropna(subset=['crowding', 'time', 'time_order']) keeps the row.
Kept(row) == row.crowding.ok /\ row.time.ok /\ row.time_order.ok

\* A kept row, its three values no longer optional.
Canon(row) ==
    [operator |-> row.operator, line |-> row.line,
     station_code |-> row.station_code, station_name |-> row.station_name,
     direction |-> row.direction, time_original |-> row.time_original,
     crowding |-> row.crowding.val, time |-> row.time.val,
     time_order |-> row.time_order.val]

\* The label "HH:MM" of a wall-clock time.
Label(h, m) == <<Digits[(h \div 10) + 1], Digits[(h % 10) + 1], COLON,
                 Digits[(m \div 10) + 1], Digits[(m % 10) + 1]>>

Hours == 0..23
Minutes == 0..59

NoSel == [line |-> "", direction |-> "", time_range |-> <<>>, top_n |-> 0]
NoCsv == [exists |-> FALSE, decodes |-> {}, ncols |-> 0, headers |-> <<>>, rows |-> <<>>]
NoOutcome == [status |-> "none", encoding |-> "", tried |-> <<>>]

\* The variables a specification does not use keep these values.
Idle(p) ==
    /\ pc = p
    /\ csv = NoCsv
    /\ df = <<>>
    /\ outcome = NoOutcome
    /\ messages = <<>>
    /\ sel = NoSel
    /\ df_filtered = <<>>
    /\ ranking = <<>>
    /\ station_peaks = <<>>

InitTime ==
    /\ Idle("time")
    /\ hh \in Hours
    /\ mm \in Minutes
    /\ torder = None

ApplyTimeToMinutes ==
    /\ pc = "time"
    /\ torder' = time_to_minutes(Some(Label(hh, mm)))
    /\ pc' = "time_done"
    /\ UNCHANGED <<csv, df, outcome, messages, sel, df_filtered, ranking, station_peaks,
                   hh, mm>>

NextTime == ApplyTimeToMinutes

SpecTime == InitTime /\ [][NextTime]_vars

\* Wall-clock minutes of a time of day.
Wall(h, m) == h * 60 + m

Operational(h, m) == Wall(h, m) >= Wall(5, 0) /\ Wall(h, m) <= Wall(23, 59)

PostMidnight(h, m) == h = 0 /\ m <= 30

\* C8: time_order is strictly increasing with wall-clock time over the labels
\* 05:00 to 23:59, and the time_order of every label 00:00 to 00:30 is greater
\* than the time_order of 23:59.
C8_TimeOrderMonotone ==
    pc = "time_done" =>
        /\ (Operational(hh, mm) \/ PostMidnight(hh, mm)) => torder.ok
        /\ Operational(hh, mm) =>
              \A h \in Hours, m \in Minutes :
                  (Operational(h, m) /\ Wall(h, m) < Wall(hh, mm)) =>
                      LET o == time_to_minutes(Some(Label(h, m)))
                      IN  o.ok /\ o.val < torder.val
        /\ PostMidnight(hh, mm) =>
              LET last == time_to_minutes(Some(Label(23, 59)))
              IN  last.ok /\ torder.val > last.val

\* A post-midnight label has been ordered, and it lies past 24:00.
C8_Witness ==
    pc = "time_done" /\ hh = 0 /\ mm = 30 /\ torder = Some(1470)

----------------------------------------------------------------------------
(* get_filtered_data, and the filter steps of app.py *)

\* The sentinel of the direction selectbox that means no restriction.
ALL == "all"

\* df[df[col] == value]
RowsWithLine(d, line) == SelectSeq(d, LAMBDA r : r.line = line)

RowsWithDirection(d, direction) == SelectSeq(d, LAMBDA r : r.direction = direction)

RowsWithTime(d, label) == SelectSeq(d, LAMBDA r : r.time = label)

\* A faulty variant of TimeRangeStep: the lower bound is exclusive.
TimeRangeStepExclusive(sub, start_time, end_time) ==
    LET time_start_df == RowsWithTime(sub, start_time)
        time_end_df == RowsWithTime(sub, end_time)
    IN  IF time_start_df # <<>> /\ time_end_df # <<>>
        THEN LET time_start_minutes == time_start_df[1].time_order
                 time_end_minutes == time_end_df[1].time_order
             IN  SelectSeq(sub, LAMBDA r : r.time_order > time_start_minutes
                                           /\ r.time_order <= time_end_minutes)
        ELSE sub

\* A faulty variant of TimeRangeStep: an absent bound gives an empty result.
TimeRangeStepStrict(sub, start_time, end_time) ==
    LET time_start_df == RowsWithTime(sub, start_time)
        time_end_df == RowsWithTime(sub, end_time)
    IN  IF time_start_df # <<>> /\ time_end_df # <<>>
        THEN LET time_start_minutes == time_start_df[1].time_order
                 time_end_minutes == time_end_df[1].time_order
             IN  SelectSeq(sub, LAMBDA r : r.time_order >= time_start_minutes
                                           /\ r.time_order <= time_end_minutes)
        ELSE <<>>

\* A faulty variant of TimeRangeStep: an inverted range wraps around.
TimeRangeStepWrap(sub, start_time, end_time) ==
    LET time_start_df == RowsWithTime(sub, start_time)
        time_end_df == RowsWithTime(sub, end_time)
    IN  IF time_start_df # <<>> /\ time_end_df # <<>>
        THEN LET time_start_minutes == time_start_df[1].time_order
                 time_end_minutes == time_end_df[1].time_order
             IN  IF time_start_minutes <= time_end_minutes
                 THEN SelectSeq(sub, LAMBDA r : r.time_order >= time_start_minutes
                                                /\ r.time_order <= time_end_minutes)
                 ELSE SelectSeq(sub, LAMBDA r : r.time_order >= time_start_minutes
                                                \/ r.time_order <= time_end_minutes)
        ELSE sub

\* The body of the try block of get_filtered_data: the bounds are
\* the time_order of the first row carrying each label (.iloc[0]); when either
\* label has no row the subset is left as it is.
TimeRangeStep(sub, start_time, end_time) ==
    LET time_start_df == RowsWithTime(sub, start_time)
        time_end_df == RowsWithTime(sub, end_time)
    IN  IF time_start_df # <<>> /\ time_end_df # <<>>
        THEN LET time_start_minutes == time_start_df[1].time_order
                 time_end_minutes == time_end_df[1].time_order
             IN  SelectSeq(sub, LAMBDA r : r.time_order >= time_start_minutes
                                           /\ r.time_order <= time_end_minutes)
        ELSE sub

\* Whether the try block raises KeyError, IndexError or ValueError.  The
\* columns 'time' and 'time_order' exist in every dataset load_data returns,
\* .iloc[0] is taken of non-empty frames only, and dropna has removed the
\* rows whose time_order is no number, so int() succeeds: nothing raises.
TimeRangeRaises(sub, start_time, end_time) == FALSE

\* The line and direction steps of get_filtered_data ("" stands for None: both
\* are falsy).  The column-count guards never fire: a loaded dataset has the
\* five identifier columns and four derived ones.
LineDirectionStep(d, line, direction) ==
    LET by_line == IF line # "" THEN RowsWithLine(d, line) ELSE d
    IN  IF direction # "" /\ direction # ALL
        THEN RowsWithDirection(by_line, direction)
        ELSE by_line

\* get_filtered_data(df, line, direction, time_range); time_range is <<>>
\* (None) or <<start, end>>.  Its except clause passes without a message.
get_filtered_data(d, line, direction, time_range) ==
    IF d = <<>> THEN <<>>
    ELSE LET sub == LineDirectionStep(d, line, direction)
         IN  IF time_range # <<>> /\ Len(time_range) = 2 /\ sub # <<>>
             THEN (IF TimeRangeRaises(sub, time_range[1], time_range[2])
                   THEN sub
                   ELSE TimeRangeStep(sub, time_range[1], time_range[2]))
             ELSE sub

\* A faulty variant of AppLineDirectionStep: the direction step is left out.
AppLineStepOnly(d, selected_line, selected_direction) == RowsWithLine(d, selected_line)

\* app.py: the line step (always applied), then the direction step.
AppLineDirectionStep(d, selected_line, selected_direction) ==
    LET by_line == RowsWithLine(d, selected_line)
    IN  IF selected_direction # ALL
        THEN RowsWithDirection(by_line, selected_direction)
        ELSE by_line

\* app.py: the body of the try block of the time range step, written out as
\* app.py has it, with time_range[0] and time_range[1] looked up in place.
AppTimeRangeBody(sub, time_range) ==
    LET time_start_df == SelectSeq(sub, LAMBDA r : r.time = time_range[1])
        time_end_df == SelectSeq(sub, LAMBDA r : r.time = time_range[2])
    IN  IF ~(time_start_df = <<>>) /\ ~(time_end_df = <<>>)
        THEN LET time_start_minutes == time_start_df[1].time_order
                 time_end_minutes == time_end_df[1].time_order
             IN  SelectSeq(sub, LAMBDA r : (r.time_order >= time_start_minutes)
                                           /\ (r.time_order <= time_end_minutes))
        ELSE sub

\* app.py: the time range step; the except clause keeps the subset.
AppTimeRangeStep(sub, time_range) ==
    IF TimeRangeRaises(sub, time_range[1], time_range[2])
    THEN sub
    ELSE AppTimeRangeBody(sub, time_range)

WARN_TIME_RANGE == "warning: time range filter failed"

\* app.py: the messages of the time range step: st.warning is called in the
\* except clause only.
AppTimeRangeMessages(sub, time_range) ==
    IF TimeRangeRaises(sub, time_range[1], time_range[2])
    THEN <<WARN_TIME_RANGE>>
    ELSE <<>>

----------------------------------------------------------------------------
(* Bounded inputs *)

SeqsUpTo(S, n) == UNION {[1..k -> S] : k \in 0..n}

Range(s) == {s[i] : i \in 1..Len(s)}

\* Time column headers: 5si30bun, 23si00bun, 0si30bun.
H0530 == <<"5", SI, "3", "0", BUN>>
H2300 == <<"2", "3", SI, "0", "0", BUN>>
H0030 == <<"0", SI, "3", "0", BUN>>

\* Crowding cells.
Cell7 == <<"7">>
Cell9 == <<"9">>

\* Rows of the filter specification: two lines, one of them with two
\* directions, and three slots.
MaxFilterRows == 3

FilterMetas == {<<"op", "L1", "150", "A", "down">>, <<"op", "L1", "150", "A", "up">>,
                <<"op", "L2", "150", "A", "up">>}

FilterHeaders == {H0530, H2300, H0030}

FilterRows == {Canon(MeltRow(m, h, Cell7)) : m \in FilterMetas, h \in FilterHeaders}

FilterLabels == {TimeMapping(h).val : h \in FilterHeaders}

FilterTimeRanges == {<<>>} \cup {<<a, b>> : a \in FilterLabels, b \in FilterLabels}

InitFilter ==
    /\ pc = "query"
    /\ csv = NoCsv
    /\ df \in SeqsUpTo(FilterRows, MaxFilterRows) \ {<<>>}
    /\ outcome = NoOutcome
    /\ messages = <<>>
    /\ sel = NoSel
    /\ df_filtered = <<>>
    /\ ranking = <<>>
    /\ station_peaks = <<>>
    /\ hh = 0 /\ mm = 0 /\ torder = None

\* A call of get_filtered_data on the dataset.
CallGetFilteredData ==
    /\ pc = "query"
    /\ \E line \in {"", "L1", "L2"}, direction \in {"", ALL, "down", "up"},
          time_range \in FilterTimeRanges :
          /\ sel' = [line |-> line, direction |-> direction,
                     time_range |-> time_range, top_n |-> 0]
          /\ df_filtered' = get_filtered_data(df, line, direction, time_range)
    /\ pc' = "get_filtered_data_done"
    /\ UNCHANGED <<csv, df, outcome, messages, ranking, station_peaks, hh, mm, torder>>

\* The widgets of app.py offer the lines of the dataset, the sentinel and the
\* directions of the chosen line, and a range of two of the dataset's labels
\* with the first not after the second in time_order (select_slider).
AppLines(d) == {r.line : r \in Range(d)}

AppDirections(d, line) == {ALL} \cup {r.direction : r \in Range(RowsWithLine(d, line))}

AppTimeRanges(d) ==
    {<<a.time, b.time>> : <<a, b>> \in {p \in Range(d) \X Range(d) :
                                          p[1].time_order <= p[2].time_order}}

\* app.py lines 67-68 and 124-144 on a non-empty dataset.
AppFilter ==
    /\ pc \in {"query", "loaded"}
    /\ df # <<>>
    /\ \E line \in AppLines(df) :
       \E direction \in AppDirections(df, line), time_range \in AppTimeRanges(df) :
          LET sub == AppLineDirectionStep(df, line, direction)
          IN  /\ sel' = [line |-> line, direction |-> direction,
                         time_range |-> time_range, top_n |-> sel.top_n]
              /\ df_filtered' = AppTimeRangeStep(sub, time_range)
              /\ messages' = messages \o AppTimeRangeMessages(sub, time_range)
    /\ pc' = "app_filter_done"
    /\ UNCHANGED <<csv, df, outcome, ranking, station_peaks, hh, mm, torder>>

NextFilter == CallGetFilteredData \/ AppFilter

SpecFilter == InitFilter /\ [][NextFilter]_vars

----------------------------------------------------------------------------
(* Claims about the filter *)

FilterDone == pc \in {"get_filtered_data_done", "app_filter_done"}

\* The rows of the dataset that pass the requested line and direction.
LineDirectionSubset ==
    SelectSeq(df, LAMBDA r :
        /\ (sel.line = "" \/ r.line = sel.line)
        /\ (sel.direction \in {"", ALL} \/ r.direction = sel.direction))

TimeRangeGiven == sel.time_range # <<>>

LabelPresent(label) == \E r \in Range(LineDirectionSubset) : r.time = label

BothLabelsPresent ==
    TimeRangeGiven /\ LabelPresent(sel.time_range[1]) /\ LabelPresent(sel.time_range[2])

SomeLabelAbsent ==
    TimeRangeGiven /\ ~(LabelPresent(sel.time_range[1]) /\ LabelPresent(sel.time_range[2]))

\* The time_order of a requested label.
OrderOf(label) == time_to_minutes(Some(label)).val

\* Wall-clock minutes of a label "HH:MM" (00:30 is half an hour into the day).
WallOf(label) ==
    LET parts == Split(label, COLON)
    IN  ParseInt(parts[1]).val * 60 + ParseInt(parts[2]).val

\* C4: when the requested start or end label is absent from the line and
\* direction subset, a warning is reported to the caller.
C4_AbsentLabelWarns ==
    (FilterDone /\ SomeLabelAbsent) => WARN_TIME_RANGE \in Range(messages)

\* C5: when the requested start or end label is absent from the line and
\* direction subset, the result is exactly that subset.
C5_AbsentLabelKeepsSubset ==
    (FilterDone /\ SomeLabelAbsent) => df_filtered = LineDirectionSubset

\* The start label resolves, the end label does not, and rows before the
\* start slot are still in the result.
C5_Witness ==
    /\ FilterDone /\ SomeLabelAbsent
    /\ LabelPresent(sel.time_range[1])
    /\ \E r \in Range(df_filtered) : r.time_order < OrderOf(sel.time_range[1])
    /\ df_filtered = LineDirectionSubset
    /\ Len(df_filtered) < Len(df)

\* C6 as stated: a range of two labels of the dataset whose start is after its
\* end on the wall clock gives an empty subset.
C6_InvertedWallClockEmpty ==
    (FilterDone /\ TimeRangeGiven
         /\ \A i \in 1..2 : \E r \in Range(df) : r.time = sel.time_range[i]
         /\ WallOf(sel.time_range[1]) > WallOf(sel.time_range[2]))
        => df_filtered = <<>>

\* C6 as amended: a range whose labels both resolve in the line and direction
\* subset and whose start has the greater time_order (the order in which
\* 00:00-00:30 follow 23:59) gives an empty subset.
C6_InvertedTimeOrderEmpty ==
    (FilterDone /\ BothLabelsPresent
         /\ OrderOf(sel.time_range[1]) > OrderOf(sel.time_range[2]))
        => df_filtered = <<>>

\* get_filtered_data was asked for 00:30 to 23:00 on a subset that has both
\* slots, and returned nothing.
C6_Witness ==
    /\ pc = "get_filtered_data_done" /\ BothLabelsPresent
    /\ sel.time_range = <<TimeMapping(H0030).val, TimeMapping(H2300).val>>
    /\ Len(LineDirectionSubset) >= 2
    /\ df_filtered = <<>>

\* C7: when both labels resolve, the result is exactly the rows of the line
\* and direction subset with start order <= time_order <= end order.
C7_InclusiveRange ==
    (FilterDone /\ BothLabelsPresent) =>
        df_filtered = SelectSeq(LineDirectionSubset, LAMBDA r :
                          /\ OrderOf(sel.time_range[1]) <= r.time_order
                          /\ r.time_order <= OrderOf(sel.time_range[2]))

\* Both bound rows are kept and a row past the end is dropped.
C7_Witness ==
    /\ FilterDone /\ BothLabelsPresent
    /\ sel.time_range[1] # sel.time_range[2]
    /\ \E r \in Range(df_filtered) : r.time = sel.time_range[1]
    /\ \E r \in Range(df_filtered) : r.time = sel.time_range[2]
    /\ \E r \in Range(LineDirectionSubset) : r.time_order > OrderOf(sel.time_range[2])
    /\ Len(df_filtered) < Len(LineDirectionSubset)

----------------------------------------------------------------------------
(* calculate_ranking *)

\* The identifier texts of the model in the order Python compares them (by
\* code point: digits, then upper case, then lower case).
TextOrder == <<"150", "151", "A", "B", "L1", "L2", "down", "op", "up">>

TextPos(x) == CHOOSE i \in 1..Len(TextOrder) : TextOrder[i] = x

TextLess(a, b) == TextPos(a) < TextPos(b)

\* The groupby key of a row: (station name, station code, direction).
GroupKey(r) == <<r.station_name, r.station_code, r.direction>>

KeyLess(a, b) ==
    \/ TextLess(a[1], b[1])
    \/ a[1] = b[1] /\ TextLess(a[2], b[2])
    \/ a[1] = b[1] /\ a[2] = b[2] /\ TextLess(a[3], b[3])

\* groupby(...) sorts the group keys (sort=True is the default).
RECURSIVE SortedKeys(_)
SortedKeys(S) ==
    IF S = {} THEN <<>>
    ELSE LET k == CHOOSE x \in S : \A y \in S \ {x} : KeyLess(x, y)
         IN  <<k>> \o SortedKeys(S \ {k})

MaxCrowding(rows) ==
    CHOOSE v \in {r.crowding : r \in Range(rows)} :
        \A r \in Range(rows) : r.crowding <= v

RECURSIVE SumCrowding(_)
SumCrowding(rows) ==
    IF rows = <<>> THEN 0 ELSE Head(rows).crowding + SumCrowding(Tail(rows))

\* idxmax: the first row, in row order, that attains the maximum.
IdxMax(rows) ==
    CHOOSE i \in 1..Len(rows) :
        /\ rows[i].crowding = MaxCrowding(rows)
        /\ \A j \in 1..(i - 1) : rows[j].crowding # MaxCrowding(rows)

\* get_peak_time(row): the rows are matched on station name and direction
\* only; the station code of the group is not compared.
get_peak_time(d, row) ==
    LET station_data == SelectSeq(d, LAMBDA r :
                            /\ r.station_name = row.station_name
                            /\ r.direction = row.direction)
    IN  IF station_data # <<>>
        THEN Some(station_data[IdxMax(station_data)].time)
        ELSE None

\* One aggregated row per group: max and mean of crowding (the mean as the
\* exact fraction sum / count), then peak_time.
GroupEntry(d, key) ==
    LET rows == SelectSeq(d, LAMBDA r : GroupKey(r) = key)
        agg == [station_name |-> key[1], station_code |-> key[2],
                direction |-> key[3], peak |-> MaxCrowding(rows),
                avg |-> [sum |-> SumCrowding(rows), count |-> Len(rows)]]
    IN  [rank |-> 0, station_name |-> agg.station_name,
         station_code |-> agg.station_code, direction |-> agg.direction,
         peak |-> agg.peak, avg |-> agg.avg, peak_time |-> get_peak_time(d, agg)]

Grouped(d) ==
    LET keys == SortedKeys({GroupKey(r) : r \in Range(d)})
    IN  [i \in 1..Len(keys) |-> GroupEntry(d, keys[i])]

\* sort_values('peak', ascending=False).  For the few rows of the model the
\* default sort kind is an insertion sort, which keeps equal peaks in the
\* order of the grouped frame.
RECURSIVE InsertByPeak(_, _)
InsertByPeak(sorted, e) ==
    IF sorted = <<>> THEN <<e>>
    ELSE IF Head(sorted).peak >= e.peak
         THEN <<Head(sorted)>> \o InsertByPeak(Tail(sorted), e)
         ELSE <<e>> \o sorted

RECURSIVE SortByPeakDesc(_)
SortByPeakDesc(s) ==
    IF s = <<>> THEN <<>>
    ELSE InsertByPeak(SortByPeakDesc(SubSeq(s, 1, Len(s) - 1)), s[Len(s)])

\* A faulty variant of HeadN: every row is kept.
HeadNAll(s, n) == s

\* head(n) for n >= 1.
HeadN(s, n) == SubSeq(s, 1, IF n < Len(s) THEN n ELSE Len(s))

\* insert(0, rank column, range(1, len + 1))
WithRank(s) == [i \in 1..Len(s) |-> [s[i] EXCEPT !.rank = i]]

\* calculate_ranking(df_filtered, ..., top_n).  The KeyError branch is not
\* reachable: the three identifier columns are columns of every dataset.
calculate_ranking(d, n) ==
    IF d = <<>> THEN <<>>
    ELSE WithRank(HeadN(SortByPeakDesc(Grouped(d)), n))

----------------------------------------------------------------------------
(* The ranking specification: calculate_ranking on bounded subsets *)

MaxRankRows == 3
MaxTopN == 2

\* Four groups: two share station name and direction and differ in station
\* code, one differs in direction, one in station name.
RankMetas == {<<"op", "L1", "150", "A", "up">>, <<"op", "L1", "151", "A", "up">>,
              <<"op", "L1", "150", "A", "down">>, <<"op", "L1", "150", "B", "up">>}

RankRows == {Canon(MeltRow(m, h, c)) : m \in RankMetas, h \in {H0530, H0030},
                                       c \in {Cell7, Cell9}}

InitRank ==
    /\ pc = "subset"
    /\ csv = NoCsv
    /\ df = <<>>
    /\ outcome = NoOutcome
    /\ messages = <<>>
    /\ sel = NoSel
    /\ df_filtered \in SeqsUpTo(RankRows, MaxRankRows)
    /\ ranking = <<>>
    /\ station_peaks = <<>>
    /\ hh = 0 /\ mm = 0 /\ torder = None

\* A call of calculate_ranking on the subset.
CallCalculateRanking ==
    /\ pc = "subset"
    /\ \E n \in 1..MaxTopN :
          /\ sel' = [sel EXCEPT !.top_n = n]
          /\ ranking' = calculate_ranking(df_filtered, n)
    /\ pc' = "ranked"
    /\ UNCHANGED <<csv, df, outcome, messages, df_filtered, station_peaks, hh, mm, torder>>

NextRank == CallCalculateRanking

SpecRank == InitRank /\ [][NextRank]_vars

----------------------------------------------------------------------------
(* Claims about the ranking *)

EntryKey(e) == <<e.station_name, e.station_code, e.direction>>

GroupRows(key) == {r \in Range(df_filtered) : GroupKey(r) = key}

\* C2: the peak_time of every entry is the time label of a row of the
\* entry's own group whose crowding equals the entry's peak.
C2_PeakTimeFromOwnGroup ==
    pc = "ranked" =>
        \A i \in 1..Len(ranking) :
            /\ ranking[i].peak_time.ok
            /\ \E r \in GroupRows(EntryKey(ranking[i])) :
                  /\ r.crowding = ranking[i].peak
                  /\ r.time = ranking[i].peak_time.val

\* The rows of a group that attain the group's maximum.
TiedRows(key) ==
    {r \in GroupRows(key) : \A q \in GroupRows(key) : q.crowding <= r.crowding}

\* C3: when several rows of a group tie for the maximum, the entry's
\* peak_time is the label of the tied row with the smallest time_order.
C3_TieTakesEarliestSlot ==
    pc = "ranked" =>
        \A i \in 1..Len(ranking) :
            LET tied == TiedRows(EntryKey(ranking[i]))
            IN  Cardinality(tied) >= 2 =>
                    \E r \in tied :
                        /\ \A q \in tied : r.time_order <= q.time_order
                        /\ ranking[i].peak_time = Some(r.time)

\* The position of the first row of a group in the subset.
FirstSeen(key) ==
    CHOOSE i \in 1..Len(df_filtered) :
        /\ GroupKey(df_filtered[i]) = key
        /\ \A j \in 1..(i - 1) : GroupKey(df_filtered[j]) # key

\* C9: the entries are in descending order of peak, and entries of equal
\* peak are in the order in which their groups first appear in the subset.
C9_PeakDescStableTies ==
    pc = "ranked" =>
        \A i \in 1..Len(ranking), j \in 1..Len(ranking) :
            i < j =>
                /\ ranking[i].peak >= ranking[j].peak
                /\ ranking[i].peak = ranking[j].peak =>
                      FirstSeen(EntryKey(ranking[i])) < FirstSeen(EntryKey(ranking[j]))

NumGroups == Cardinality({GroupKey(r) : r \in Range(df_filtered)})

\* C10: for top_n = k >= 1 and g groups the result has min(k, g) entries with
\* ranks 1..min(k, g) in output order; an empty subset gives an empty result.
C10_DenseRanks ==
    pc = "ranked" =>
        /\ Len(ranking) = (IF sel.top_n < NumGroups THEN sel.top_n ELSE NumGroups)
        /\ \A i \in 1..Len(ranking) : ranking[i].rank = i
        /\ df_filtered = <<>> => ranking = <<>>

\* More groups than top_n: the result is cut to top_n entries ranked 1, 2.
C10_Witness ==
    /\ pc = "ranked" /\ sel.top_n = 2 /\ NumGroups = 3
    /\ Len(ranking) = 2 /\ ranking[1].rank = 1 /\ ranking[2].rank = 2

----------------------------------------------------------------------------
(* load_data *)

ENCODING_OPTIONS == <<"cp949", "euc-kr", "utf-8-sig", "utf-8">>

\* The encodings tried up to and including the i-th.
Tried(i) == SubSeq(ENCODING_OPTIONS, 1, i)

\* A faulty variant of TryEncodings: a missing file is passed over like an
\* encoding that cannot decode, and every encoding is tried on it.
RECURSIVE TryEncodingsPastMissing(_, _)
TryEncodingsPastMissing(file, i) ==
    IF i > Len(ENCODING_OPTIONS)
    THEN [status |-> "all_encodings_failed", encoding |-> "", tried |-> Tried(i - 1)]
    ELSE IF file.exists /\ ENCODING_OPTIONS[i] \in file.decodes
         THEN (IF file.ncols = 0
               THEN [status |-> "read_error", encoding |-> ENCODING_OPTIONS[i],
                     tried |-> Tried(i)]
               ELSE [status |-> "read", encoding |-> ENCODING_OPTIONS[i],
                     tried |-> Tried(i)])
    ELSE TryEncodingsPastMissing(file, i + 1)

\* The loop over the encodings.  A missing file raises FileNotFoundError at
\* the first attempt; an encoding that cannot decode the bytes raises
\* UnicodeDecodeError and the next one is tried; a file with no columns makes
\* read_csv raise EmptyDataError, which the last except clause reports.  The
\* result records the encodings read_csv was called with.
RECURSIVE TryEncodings(_, _)
TryEncodings(file, i) ==
    IF i > Len(ENCODING_OPTIONS)
    THEN [status |-> "all_encodings_failed", encoding |-> "", tried |-> Tried(i - 1)]
    ELSE IF ~file.exists THEN [status |-> "not_found", encoding |-> "", tried |-> Tried(i)]
    ELSE IF ENCODING_OPTIONS[i] \in file.decodes
         THEN (IF file.ncols = 0
               THEN [status |-> "read_error", encoding |-> ENCODING_OPTIONS[i],
                     tried |-> Tried(i)]
               ELSE [status |-> "read", encoding |-> ENCODING_OPTIONS[i],
                     tried |-> Tried(i)])
    ELSE TryEncodings(file, i + 1)

\* df.melt: the time columns in their order, and under each the identifier
\* rows in their order.  The column names have been stripped.
RECURSIVE MeltFrom(_, _)
MeltFrom(file, j) ==
    IF j > Len(file.headers) THEN <<>>
    ELSE [i \in 1..Len(file.rows) |->
             MeltRow(file.rows[i].meta, Strip(file.headers[j]), file.rows[i].cells[j])]
         \o MeltFrom(file, j + 1)

\* The messages load_data shows for each way it ends.
LoadMessages(status) ==
    CASE status = "not_found" -> <<"error: file not found", "info: check the path">>
      [] status = "read_error" -> <<"error: reading the file failed">>
      [] status = "all_encodings_failed" ->
             <<"error: no supported encoding reads the file", "info: check the encoding">>
      [] status = "empty_dataset" -> <<"error: no valid data">>
      [] OTHER -> <<>>

\* load_data(csv_file): the frame, or None with a status that tells why.
load_data(file) ==
    LET r == TryEncodings(file, 1)
    IN  IF r.status # "read"
        THEN [status |-> r.status, encoding |-> r.encoding, tried |-> r.tried,
              frame |-> <<>>]
        ELSE LET df_long == MeltFrom(file, 1)
                 kept == SelectSeq(df_long, Kept)
                 final == [i \in 1..Len(kept) |-> Canon(kept[i])]
             IN  IF Len(final) = 0
                 THEN [status |-> "empty_dataset", encoding |-> r.encoding,
                       tried |-> r.tried, frame |-> <<>>]
                 ELSE [status |-> "ok", encoding |-> r.encoding, tried |-> r.tried,
                       frame |-> final]

\* The number of columns of the long frame: the identifier columns (at most
\* five) and time_original, crowding, time, time_order.
LongColumnCount(file) == (IF file.ncols < 5 THEN file.ncols ELSE 5) + 4

----------------------------------------------------------------------------
(* get_station_peaks *)

RECURSIVE SortedTexts(_)
SortedTexts(S) ==
    IF S = {} THEN <<>>
    ELSE LET k == CHOOSE x \in S : \A y \in S \ {x} : TextLess(x, y)
         IN  <<k>> \o SortedTexts(S \ {k})

get_station_peaks(d) ==
    IF d = <<>> THEN <<>>
    ELSE LET names == SortedTexts({r.station_name : r \in Range(d)})
         IN  [i \in 1..Len(names) |->
                 [station_name |-> names[i],
                  peak_crowding |->
                      MaxCrowding(SelectSeq(d, LAMBDA r : r.station_name = names[i]))]]

----------------------------------------------------------------------------
(* The run of app.py *)

MaxRawRows == 2

\* A header with no unit markers, and a cell of placeholder text.
HBad == <<"5", "3", "0">>
CellDash == <<"-">>

AppMetas == {<<"op", "L1", "150", "A", "up">>, <<"op", "L1", "150", "A", "down">>,
             <<"op", "L2", "151", "B", "up">>}

AppHeaderSeqs == {<<H0530>>, <<H0530, H0030>>, <<H0030, H0530>>, <<HBad, H0530>>}

AppCells == {Cell7, CellDash}

\* Tables with fewer than six columns have no time column.
ShortColumnCounts == {0, 3, 5}

RawRows(ncols, ntime) ==
    IF ncols = 0 THEN {<<>>}
    ELSE SeqsUpTo({[meta |-> SubSeq(m, 1, IF ncols < 5 THEN ncols ELSE 5), cells |-> c] :
                       m \in AppMetas, c \in [1..ntime -> AppCells]}, MaxRawRows)

Tables ==
    {[ncols |-> n, headers |-> <<>>, rows |-> r] :
         <<n, r>> \in UNION {{n} \X RawRows(n, 0) : n \in ShortColumnCounts}}
    \cup
    {[ncols |-> 5 + Len(hr[1]), headers |-> hr[1], rows |-> hr[2]] :
         hr \in UNION {{h} \X RawRows(5 + Len(h), Len(h)) : h \in AppHeaderSeqs}}

\* The encodings that decode the file's bytes: all of them, or the two
\* UTF-8 ones only.
DecodeChoices == {{"cp949", "euc-kr", "utf-8-sig", "utf-8"}, {"utf-8-sig", "utf-8"}}

Files ==
    {NoCsv, [exists |-> TRUE, decodes |-> {}, ncols |-> 0, headers |-> <<>>, rows |-> <<>>]}
    \cup
    {[exists |-> TRUE, decodes |-> d, ncols |-> t.ncols, headers |-> t.headers,
      rows |-> t.rows] : d \in DecodeChoices, t \in Tables}

Init ==
    /\ pc = "start"
    /\ csv \in Files
    /\ df = <<>>
    /\ outcome = NoOutcome
    /\ messages = <<>>
    /\ sel = NoSel
    /\ df_filtered = <<>>
    /\ ranking = <<>>
    /\ station_peaks = <<>>
    /\ hh = 0 /\ mm = 0 /\ torder = None

\* A faulty variant of Load: the run goes on to the widgets after load_data
\* gave None.
LoadWithoutStop ==
    /\ pc = "start"
    /\ LET r == load_data(csv)
       IN  /\ outcome' = [status |-> r.status, encoding |-> r.encoding,
                          tried |-> r.tried]
           /\ messages' = messages \o LoadMessages(r.status)
           /\ df' = r.frame
           /\ pc' = "loaded"
    /\ UNCHANGED <<csv, sel, df_filtered, ranking, station_peaks, hh, mm, torder>>

\* app.py lines 31-40: load_data, st.stop when it gave None, then the check
\* of the long frame's column count.
Load ==
    /\ pc = "start"
    /\ LET r == load_data(csv)
       IN  IF r.status # "ok"
           THEN /\ outcome' = [status |-> r.status, encoding |-> r.encoding,
                               tried |-> r.tried]
                /\ messages' = messages \o LoadMessages(r.status)
                /\ df' = <<>>
                /\ pc' = "stopped"
           ELSE IF LongColumnCount(csv) < 5
           THEN /\ outcome' = [status |-> "schema_error", encoding |-> r.encoding,
                               tried |-> r.tried]
                /\ messages' = messages \o <<"error: at least 5 columns are required">>
                /\ df' = r.frame
                /\ pc' = "stopped"
           ELSE /\ outcome' = [status |-> "ok", encoding |-> r.encoding,
                               tried |-> r.tried]
                /\ messages' = messages
                /\ df' = r.frame
                /\ pc' = "loaded"
    /\ UNCHANGED <<csv, sel, df_filtered, ranking, station_peaks, hh, mm, torder>>

TOP_N_MIN == 5
DEFAULT_TOP_N == 20

\* Values of the top-n number input.
TopNChoices == {TOP_N_MIN, DEFAULT_TOP_N}

\* app.py: the ranking tab and the heatmap tab.  An empty subset shows a
\* warning in each and computes nothing.
AppTabs ==
    /\ pc = "app_filter_done"
    /\ \E n \in TopNChoices :
          /\ sel' = [sel EXCEPT !.top_n = n]
          /\ IF df_filtered = <<>>
             THEN /\ ranking' = <<>>
                  /\ station_peaks' = <<>>
                  /\ messages' = messages \o <<"warning: no data", "warning: no data">>
             ELSE /\ ranking' = calculate_ranking(df_filtered, n)
                  /\ station_peaks' = get_station_peaks(df_filtered)
                  /\ messages' = messages
    /\ pc' = "done"
    /\ UNCHANGED <<csv, df, outcome, df_filtered, hh, mm, torder>>

Next == Load \/ AppFilter \/ AppTabs

Spec == Init /\ [][Next]_vars

----------------------------------------------------------------------------
(* Claims about loading *)

\* C1: loading a raw table with fewer than 6 columns ends with the schema
\* error, an outcome other than not-found, all-encodings-failed and
\* empty-dataset.  (The table has at least one column: a file with none is
\* no table, read_csv raises on it.)
C1_ShortTableSchemaError ==
    (pc # "start" /\ csv.exists /\ csv.decodes # {} /\ csv.ncols \in 1..5)
        => outcome.status = "schema_error"

\* The load has run.
LoadDone == pc # "start"

\* The position in ENCODING_OPTIONS of the first encoding that decodes the
\* file, 0 when none does.
FirstDecoding ==
    IF \E i \in 1..Len(ENCODING_OPTIONS) : ENCODING_OPTIONS[i] \in csv.decodes
    THEN CHOOSE i \in 1..Len(ENCODING_OPTIONS) :
             /\ ENCODING_OPTIONS[i] \in csv.decodes
             /\ \A j \in 1..(i - 1) : ENCODING_OPTIONS[j] \notin csv.decodes
    ELSE 0

\* C11: the encodings are tried in the configured order and the outcome
\* carries the first one that decodes, the later ones untried; the
\* all-encodings-failed outcome occurs exactly when the file exists and no
\* encoding decodes it, after all have been tried; a missing file gives the
\* not-found outcome after a single attempt, and no other file gives it.
C11_FirstDecodingEncoding ==
    LoadDone =>
        /\ (outcome.status = "not_found") <=> ~csv.exists
        /\ ~csv.exists => outcome.tried = <<ENCODING_OPTIONS[1]>>
        /\ (outcome.status = "all_encodings_failed") <=> (csv.exists /\ FirstDecoding = 0)
        /\ outcome.status = "all_encodings_failed" => outcome.tried = ENCODING_OPTIONS
        /\ (csv.exists /\ FirstDecoding > 0) =>
               /\ outcome.encoding = ENCODING_OPTIONS[FirstDecoding]
               /\ outcome.tried = SubSeq(ENCODING_OPTIONS, 1, FirstDecoding)
        /\ df # <<>> => (csv.exists /\ FirstDecoding > 0)

\* A file the first two encodings cannot decode is loaded with the third.
C11_Witness ==
    /\ pc = "loaded" /\ df # <<>>
    /\ csv.decodes = {"utf-8-sig", "utf-8"}
    /\ outcome.encoding = "utf-8-sig"
    /\ outcome.tried = <<"cp949", "euc-kr", "utf-8-sig">>

----------------------------------------------------------------------------
(* load_data called on raw tables *)

MaxLoadRows == 2

\* Headers: the hour alone (5si), text around the unit markers (xsiybun),
\* and a padded one.
HHour == <<"5", SI>>
HText == <<"x", SI, "y", BUN>>
HPadded == <<SPACE>> \o H0530 \o <<SPACE>>

\* Cells: a negative number, and a number with a thousands separator and
\* padding.
CellNeg == <<MINUS, "5">>
CellComma == <<SPACE, "1", COMMA, "2">>

LoadMeta == <<"op", "L1", "150", "A", "up">>

LoadHeaderSeqs ==
    {<<>>, <<H0530>>, <<HBad>>, <<HText>>, <<H0530, H0030>>, <<HBad, H0530>>,
     <<H0530, HText>>, <<HHour, HPadded>>}

LoadCells == {Cell7, CellNeg, CellComma, CellDash}

LoadRows(ntime) ==
    SeqsUpTo({[meta |-> LoadMeta, cells |-> c] : c \in [1..ntime -> LoadCells]},
             MaxLoadRows)

\* Readable files holding a table of five identifier columns and the time
\* columns of one of the header sequences.
LoadFiles ==
    {[exists |-> TRUE, decodes |-> {"utf-8-sig", "utf-8"}, ncols |-> 5 + Len(hr[1]),
      headers |-> hr[1], rows |-> hr[2]] :
         hr \in UNION {{h} \X LoadRows(Len(h)) : h \in LoadHeaderSeqs}}

InitLoad ==
    /\ pc = "load_data"
    /\ csv \in LoadFiles
    /\ df = <<>>
    /\ outcome = NoOutcome
    /\ messages = <<>>
    /\ sel = NoSel
    /\ df_filtered = <<>>
    /\ ranking = <<>>
    /\ station_peaks = <<>>
    /\ hh = 0 /\ mm = 0 /\ torder = None

\* A call of load_data: the frame it returns (none when it returns None),
\* how it ended and the messages it showed.
CallLoadData ==
    /\ pc = "load_data"
    /\ LET r == load_data(csv)
       IN  /\ outcome' = [status |-> r.status, encoding |-> r.encoding, tried |-> r.tried]
           /\ messages' = messages \o LoadMessages(r.status)
           /\ df' = r.frame
    /\ pc' = "load_data_returned"
    /\ UNCHANGED <<csv, sel, df_filtered, ranking, station_peaks, hh, mm, torder>>

NextLoad == CallLoadData

SpecLoad == InitLoad /\ [][NextLoad]_vars

\* load_data has returned; it has returned a dataset.
Returned == pc = "load_data_returned"

ReturnedDataset == Returned /\ outcome.status = "ok"

\* C12: every record of the dataset load_data returns has a crowding that
\* is zero or more.
C12_CrowdingNonNegative ==
    ReturnedDataset => \A r \in Range(df) : r.crowding >= 0


\* The cells that hold text that is no number.
PlaceholderCells == {CellDash}

\* The table has identifier rows and time columns, and no crowding cell of
\* it holds a number.
EveryCellNonNumeric ==
    /\ Len(csv.rows) >= 1
    /\ Len(csv.headers) >= 1
    /\ \A i \in 1..Len(csv.rows) : \A j \in 1..Len(csv.headers) :
           csv.rows[i].cells[j] \in PlaceholderCells

\* C13: a table whose crowding cells all hold non-numeric text ends with the
\* empty-dataset failure and its message: no dataset is returned, neither an
\* empty one nor one whose rows have crowding zero.
C13_AllNonNumericIsEmptyFailure ==
    (Returned /\ EveryCellNonNumeric) =>
        /\ outcome.status = "empty_dataset"
        /\ df = <<>>
        /\ messages = <<"error: no valid data">>

\* Two rows and two well-formed time columns, every cell a placeholder.
C13_Witness ==
    /\ Returned /\ EveryCellNonNumeric
    /\ csv.headers = <<H0530, H0030>>
    /\ Len(csv.rows) = 2
    /\ outcome.status = "empty_dataset"

\* The time columns whose header splits into an hour part and a minute
\* part, and among them those whose two parts are numbers.
SplitHeaders == {H0530, H0030, HHour, HPadded, HText}

NumberHeaders == {H0530, H0030, HHour, HPadded}

NumberCells == {Cell7, CellNeg, CellComma}

MappedColumns == {j \in 1..Len(csv.headers) : csv.headers[j] \in SplitHeaders}

\* R identifier rows and T time columns whose header has a label.
R == Len(csv.rows)

T == Cardinality(MappedColumns)

\* The cell of row i under column j is dropped: by the coercion of its value
\* or by the failure to read its column's label as a time.
CellDropped(i, j) ==
    \/ csv.rows[i].cells[j] \notin NumberCells
    \/ csv.headers[j] \notin NumberHeaders

NoCellDropped == \A i \in 1..R : \A j \in MappedColumns : ~CellDropped(i, j)

\* C14: the dataset load_data returns has at most R * T rows, and exactly
\* R * T if and only if no cell under the T columns is dropped; a table
\* with cells and none of them dropped does return a dataset.
C14_RowCount ==
    /\ ReturnedDataset =>
           /\ Len(df) <= R * T
           /\ (Len(df) = R * T) <=> NoCellDropped
    /\ (Returned /\ R * T > 0 /\ NoCellDropped) => ReturnedDataset

\* Two rows and two columns with one cell dropped: three records.
C14_Witness ==
    /\ ReturnedDataset
    /\ R = 2 /\ T = 2
    /\ ~NoCellDropped
    /\ Len(df) = 3


----------------------------------------------------------------------------
(* Claims about the run of app.py *)

\* The ways a load ends that halt the run.
FatalOutcomes ==
    {"not_found", "all_encodings_failed", "read_error", "schema_error", "empty_dataset"}

\* C15: once the load has ended in a fatal outcome the run is halted and
\* stays so: no selection is made and no filter, ranking or station-peak
\* computation has run, in any state that follows.
C15_FatalLoadHalts ==
    (outcome.status \in FatalOutcomes) =>
        /\ pc = "stopped"
        /\ sel = NoSel
        /\ df_filtered = <<>> /\ ranking = <<>> /\ station_peaks = <<>>

\* A table whose cells are all placeholders: the run is halted with the
\* empty-dataset message.
C15_Witness ==
    /\ pc = "stopped"
    /\ outcome.status = "empty_dataset"
    /\ Len(csv.rows) >= 1 /\ Len(csv.headers) >= 1
    /\ messages = <<"error: no valid data">>


----------------------------------------------------------------------------
(* The inline filter of app.py and get_filtered_data *)

\* The inline filter sequence of app.py applied to a dataset.
AppInlineFilter(d, line, direction, time_range) ==
    AppTimeRangeStep(AppLineDirectionStep(d, line, direction), time_range)

\* The arguments are ones the inline sequence can be given: a line, a
\* direction or the sentinel, and a time range.
InlineArguments == sel.line # "" /\ sel.direction # "" /\ sel.time_range # <<>>

\* C16: for a non-empty dataset, a line, a direction or the sentinel and a
\* time range, the inline filter of app.py and get_filtered_data give the
\* same rows in the same order: what the app computed is what
\* get_filtered_data gives for the selection, and what get_filtered_data
\* returned for such arguments is what the inline sequence gives.
C16_InlineFilterEquivalent ==
    /\ pc = "app_filter_done" =>
           df_filtered = get_filtered_data(df, sel.line, sel.direction, sel.time_range)
    /\ (pc = "get_filtered_data_done" /\ InlineArguments) =>
           df_filtered = AppInlineFilter(df, sel.line, sel.direction, sel.time_range)

\* The app filtered a dataset of two directions down to one direction and
\* one slot out of two.
C16_Witness ==
    /\ pc = "app_filter_done"
    /\ sel.direction # ALL
    /\ sel.time_range[1] = sel.time_range[2]
    /\ \E r \in Range(df) : r.line = sel.line /\ r.direction # sel.direction
    /\ \E r \in Range(df) : r.line = sel.line /\ r.direction = sel.direction
                            /\ r.time # sel.time_range[1]
    /\ Len(df_filtered) = 1

====
